---- MODULE Spec2Model ----
(***************************************************************************)
(* Model of the VoiceTech for All TTS API server (src/app.py): the startup *)
(* hook, the two synthesis endpoints, the artifact lookup endpoint and the *)
(* text normalizer.                                                        *)
(***************************************************************************)
EXTENDS Integers, Sequences, FiniteSets, TLC

VARIABLES model_loaded, started, now, fs, calls, log, last, ntext, nprev, napplied

vars == <<model_loaded, started, now, fs, calls, log, last, ntext, nprev, napplied>>

(* ------------------------------ bounds --------------------------------- *)

MaxCalls == 2

MaxTicks == 2

TicksPerSecond == 2

MaxLen == 3

MaxAttempts == 2

(* ------------------------- program constants --------------------------- *)

NumAccents == 5

NumStyles == 3

NumLanguages == 11

SeqLen == 150

MelBins == 80

HopLength == 256

SampleRate == 22050

LANGUAGES == <<"hi", "bn", "mr", "kn", "te", "bh", "cc", "mg", "mt", "ta", "ml">>

(* ------------------------------ helpers -------------------------------- *)

Range(s) == {s[i] : i \in 1..Len(s)}

IndexOf(s, x) == (CHOOSE i \in 1..Len(s) : s[i] = x) - 1

None == <<>>

(* --------------------------- text normalizer --------------------------- *)

Whitespace == {" ", "\t"}

Alnum == {"a", "A", "1"}

KeptPunct == {" ", ".", ",", "!", "?", ";", ":"}

Chars == {"a", "A", " ", "\t", "#", "."}

isspace(c) == c \in Whitespace

isalnum(c) == c \in Alnum

lower_char(c) == IF c = "A" THEN "a" ELSE c

RECURSIVE split_from(_, _, _)
split_from(text, i, word) ==
    IF i > Len(text)
    THEN IF word = <<>> THEN <<>> ELSE <<word>>
    ELSE IF isspace(text[i])
         THEN (IF word = <<>> THEN <<>> ELSE <<word>>) \o split_from(text, i + 1, <<>>)
         ELSE split_from(text, i + 1, Append(word, text[i]))

split(text) == split_from(text, 1, <<>>)

RECURSIVE join(_, _)
join(sep, words) ==
    IF words = <<>> THEN <<>>
    ELSE IF Len(words) = 1 THEN words[1]
    ELSE words[1] \o sep \o join(sep, Tail(words))

keep(c) == isalnum(c) \/ c \in KeptPunct

lower(text) == [i \in 1..Len(text) |-> lower_char(text[i])]

normalize(text, language) ==
    LET collapsed == join(<<" ">>, split(text))
        stripped  == SelectSeq(collapsed, keep)
    IN  lower(stripped)

(* ------------------------------ requests ------------------------------- *)

TTSRequest(text, language, accent_id, style_id, speaker_id) ==
    [text |-> text, language |-> language, accent_id |-> accent_id,
     style_id |-> style_id, speaker_id |-> speaker_id]

TTSResponse(status, message, audio_url, duration, language, accent_id, style_id) ==
    [status |-> status, message |-> message, audio_url |-> audio_url,
     duration |-> duration, language |-> language, accent_id |-> accent_id,
     style_id |-> style_id]

(* ----------------------------- exceptions ------------------------------ *)

NoException == [type |-> "", status_code |-> 0, detail |-> <<>>]

HTTPException(status_code, detail) ==
    [type |-> "HTTPException", status_code |-> status_code, detail |-> detail]

Raised(type, text) == [type |-> type, status_code |-> 0, detail |-> <<text>>]

str(e) ==
    IF e.type = "HTTPException"
    THEN <<ToString(e.status_code), ": ">> \o e.detail
    ELSE e.detail

(* HTTP responses: body is <<TTSResponse>> on success, <<>> on an error. *)
Ok(body) == [status_code |-> 200, detail |-> None, body |-> <<body>>]

Error(e) == [status_code |-> e.status_code, detail |-> e.detail, body |-> <<>>]

(* ----------------------------- validation ------------------------------ *)

(* Variant: the upper limits of accent_id and style_id are let through. *)
validate_upper_inclusive(request) ==
    IF request.language \notin Range(LANGUAGES)
    THEN HTTPException(400, <<"Language ", request.language, " not supported">>)
    ELSE IF request.accent_id < 0 \/ request.accent_id > 5
    THEN HTTPException(400, <<"accent_id must be 0-4">>)
    ELSE IF request.style_id < 0 \/ request.style_id > 3
    THEN HTTPException(400, <<"style_id must be 0-2">>)
    ELSE NoException

validate(request) ==
    IF request.language \notin Range(LANGUAGES)
    THEN HTTPException(400, <<"Language ", request.language, " not supported">>)
    ELSE IF request.accent_id < 0 \/ request.accent_id >= 5
    THEN HTTPException(400, <<"accent_id must be 0-4">>)
    ELSE IF request.style_id < 0 \/ request.style_id >= 3
    THEN HTTPException(400, <<"style_id must be 0-2">>)
    ELSE NoException

(* -------------------------------- model -------------------------------- *)

Outcomes == {"ok", "model_raises", "open_raises", "write_raises"}

(* The exception each failing outcome raises, with its error text. *)
Fault(outcome) ==
    CASE outcome = "model_raises" -> Raised("RuntimeError", "model failure")
      [] outcome = "open_raises"  -> Raised("RuntimeError", "Error opening file")
      [] outcome = "write_raises" -> Raised("OSError", "No space left on device")
      [] OTHER -> NoException

Embedding(num_embeddings, index) == index >= 0 /\ index < num_embeddings

forward(text_shape, language_id, accent_id, style_id, outcome) ==
    IF outcome = "model_raises"
    THEN [raised |-> Fault(outcome), shape |-> <<>>]
    ELSE IF ~(/\ Embedding(NumLanguages, language_id)
              /\ Embedding(NumAccents, accent_id)
              /\ Embedding(NumStyles, style_id))
    THEN [raised |-> Raised("IndexError", "index out of range in self"), shape |-> <<>>]
    ELSE [raised |-> NoException, shape |-> <<text_shape[1], text_shape[2], MelBins>>]

(* ----------------------------- file system ----------------------------- *)

EmptyDir == [dir |-> FALSE, files |-> <<>>]

Exists(dirfs, filename) == dirfs.dir /\ filename \in DOMAIN dirfs.files

mkdir(dirfs) == [dirfs EXCEPT !.dir = TRUE]

(* Variant: writing a file clears the rest of the directory. *)
PutFile_only(files, filename, content) == [f \in {filename} |-> content]

PutFile(files, filename, content) ==
    [f \in DOMAIN files \cup {filename} |-> IF f = filename THEN content ELSE files[f]]

Audio(id, samples) == [by |-> id, samples |-> samples, rate |-> SampleRate]

sf_write(dirfs, filename, content, outcome) ==
    IF outcome = "open_raises"
    THEN [raised |-> Fault(outcome), fs |-> dirfs]
    ELSE IF outcome = "write_raises"
    THEN [raised |-> Fault(outcome),
          fs |-> [dirfs EXCEPT !.files = PutFile(@, filename, [content EXCEPT !.samples = 0])]]
    ELSE [raised |-> NoException,
          fs |-> [dirfs EXCEPT !.files = PutFile(@, filename, content)]]

(* Variant: the timestamp keeps the sub-second part. *)
strftime_subsecond(t) == t

strftime(t) == t \div TicksPerSecond

audio_file(prefix, timestamp) == <<prefix, timestamp, ".wav">>

(* Variant: the sample count taken from the mel-bin axis. *)
audio_length_bins(mel_np_shape) == mel_np_shape[2] * HopLength

audio_length(mel_np_shape) == mel_np_shape[1] * HopLength

Duration(samples) == <<samples, SampleRate>>

(* ------------------------- synthesis endpoints ------------------------- *)

(* One pass through the body of the try block.  outcome is what the        *)
(* environment does to this pass: nothing, the model raising, the audio    *)
(* file failing to open, or the write failing after the file was created.  *)
attempt(prefix, message, request, dirfs, t, id, outcome) ==
    LET invalid == validate(request)
        normalized_text == normalize(request.text, request.language)
        text_shape == <<1, SeqLen>>
        language_id == IndexOf(LANGUAGES, request.language)
        tensors == [language_id |-> language_id, accent_id |-> request.accent_id,
                    style_id |-> request.style_id]
        mel == forward(text_shape, tensors.language_id, tensors.accent_id,
                       tensors.style_id, outcome)
        output_dir == mkdir(dirfs)
        timestamp == strftime(t)
        file == audio_file(prefix, timestamp)
        samples == audio_length(Tail(mel.shape))
        written == sf_write(output_dir, file, Audio(id, samples), outcome)
    IN  IF invalid # NoException
        THEN [raised |-> invalid, body |-> <<>>, fs |-> dirfs, model_runs |-> 0,
              lookups |-> <<>>]
        ELSE IF mel.raised # NoException
        THEN [raised |-> mel.raised, body |-> <<>>, fs |-> dirfs, model_runs |-> 1,
              lookups |-> <<tensors>>]
        ELSE IF written.raised # NoException
        THEN [raised |-> written.raised, body |-> <<>>, fs |-> written.fs, model_runs |-> 1,
              lookups |-> <<tensors>>]
        ELSE [raised |-> NoException, lookups |-> <<tensors>>,
              body |-> <<TTSResponse("success", message, <<"/audio/">> \o file,
                                     Duration(samples), request.language,
                                     request.accent_id, request.style_id)>>,
              fs |-> written.fs, model_runs |-> 1]

(* Variant: a failed pass is tried once more. *)
try_block_retry(prefix, message, request, dirfs, t, id, env) ==
    LET first == attempt(prefix, message, request, dirfs, t, id, env[1])
        again == attempt(prefix, message, request, first.fs, t, id, env[2])
    IN  IF first.raised # NoException /\ first.raised.type # "HTTPException"
        THEN [again EXCEPT !.model_runs = first.model_runs + again.model_runs]
        ELSE first

(* The try block: the code makes one pass and uses only env[1]. *)
try_block(prefix, message, request, dirfs, t, id, env) ==
    attempt(prefix, message, request, dirfs, t, id, env[1])

(* Variant: the model_loaded check sits inside the try, after validation. *)
respond_check_inside(loaded, tried, dirfs) ==
    IF tried.raised # NoException /\ tried.raised.type = "HTTPException"
    THEN [response |-> Error(HTTPException(500, str(tried.raised))),
          fs |-> dirfs, model_runs |-> 0, lookups |-> <<>>]
    ELSE IF ~loaded
    THEN [response |-> Error(HTTPException(503, <<"Model not loaded">>)),
          fs |-> dirfs, model_runs |-> 0, lookups |-> <<>>]
    ELSE IF tried.raised # NoException
    THEN [response |-> Error(HTTPException(500, str(tried.raised))),
          fs |-> tried.fs, model_runs |-> tried.model_runs, lookups |-> tried.lookups]
    ELSE [response |-> Ok(tried.body[1]), fs |-> tried.fs, model_runs |-> tried.model_runs,
          lookups |-> tried.lookups]

(* Variant: the model_loaded check runs after the body has done its work. *)
respond_check_after(loaded, tried, dirfs) ==
    IF ~loaded
    THEN [response |-> Error(HTTPException(503, <<"Model not loaded">>)),
          fs |-> tried.fs, model_runs |-> 0, lookups |-> <<>>]
    ELSE IF tried.raised # NoException
    THEN [response |-> Error(HTTPException(500, str(tried.raised))),
          fs |-> tried.fs, model_runs |-> tried.model_runs, lookups |-> tried.lookups]
    ELSE [response |-> Ok(tried.body[1]), fs |-> tried.fs, model_runs |-> tried.model_runs,
          lookups |-> tried.lookups]

(* The model_loaded check before the try, and the except clause after it. *)
respond(loaded, tried, dirfs) ==
    IF ~loaded
    THEN [response |-> Error(HTTPException(503, <<"Model not loaded">>)),
          fs |-> dirfs, model_runs |-> 0, lookups |-> <<>>]
    ELSE IF tried.raised # NoException
    THEN [response |-> Error(HTTPException(500, str(tried.raised))),
          fs |-> tried.fs, model_runs |-> tried.model_runs, lookups |-> tried.lookups]
    ELSE [response |-> Ok(tried.body[1]), fs |-> tried.fs, model_runs |-> tried.model_runs,
          lookups |-> tried.lookups]

synthesize(request, loaded, dirfs, t, id, env) ==
    respond(loaded,
            try_block("tts_", "Speech synthesized successfully", request, dirfs, t, id, env),
            dirfs)

get_inference(request, loaded, dirfs, t, id, env) ==
    respond(loaded,
            try_block("inference_", "Inference completed successfully", request, dirfs, t, id, env),
            dirfs)

(* ---------------------------- audio lookup ----------------------------- *)

(* Variant: the lookup ignores the name and serves any file of the directory. *)
get_audio_any(filename, dirfs) ==
    IF ~dirfs.dir \/ DOMAIN dirfs.files = {}
    THEN [status_code |-> 404, detail |-> <<"Audio file not found">>, file |-> <<>>]
    ELSE [status_code |-> 200, detail |-> None,
          file |-> <<dirfs.files[CHOOSE f \in DOMAIN dirfs.files : TRUE]>>]

get_audio(filename, dirfs) ==
    IF ~Exists(dirfs, filename)
    THEN [status_code |-> 404, detail |-> <<"Audio file not found">>, file |-> <<>>]
    ELSE [status_code |-> 200, detail |-> None, file |-> <<dirfs.files[filename]>>]

(* ------------------------------- inputs -------------------------------- *)

Languages == {"hi", "ml", "xx"}

AccentIds == {-1, 0, 4, 5}

StyleIds == {-1, 0, 2, 3}

Texts == {<<"H", "i">>, <<"a", " ", "#">>}

SpeakerIds == {None, <<7>>}

Requests ==
    {TTSRequest(x, l, a, s, k) :
        x \in Texts, l \in Languages, a \in AccentIds, s \in StyleIds, k \in SpeakerIds}

(* What the environment does to each pass through the try block.  Passes  *)
(* after the first are taken to succeed: the case a retry would exploit.   *)
Envs == {env \in [1..MaxAttempts -> Outcomes] : \A i \in 2..MaxAttempts : env[i] = "ok"}

Filenames ==
    {audio_file(p, s) : p \in {"tts_", "inference_", "other_"}, s \in 0..(MaxTicks \div TicksPerSecond)}

Strings(n) == UNION {[1..k -> Chars] : k \in 0..n}

(* ------------------------------- actions ------------------------------- *)

Init ==
    /\ model_loaded = FALSE
    /\ started = FALSE
    /\ now = 0
    /\ fs = EmptyDir
    /\ calls = 0
    /\ log = <<>>
    /\ last = <<>>
    /\ ntext = <<>>
    /\ nprev = <<>>
    /\ napplied = 0

startup_event ==
    /\ ~started
    /\ started' = TRUE
    /\ \E ok \in BOOLEAN : model_loaded' = ok
    /\ UNCHANGED <<now, fs, calls, log, last, ntext, nprev, napplied>>

Tick ==
    /\ now < MaxTicks
    /\ now' = now + 1
    /\ UNCHANGED <<model_loaded, started, fs, calls, log, last, ntext, nprev, napplied>>

(* A POST exchange.  last is the exchange the client is reading; log is   *)
(* the history of the calls that returned 200 or wrote a file.            *)
Post(endpoint, request, env, result) ==
    /\ calls' = calls + 1
    /\ fs' = result.fs
    /\ last' = <<[method |-> "POST", endpoint |-> endpoint, request |-> request, id |-> calls + 1,
                  at |-> now, loaded |-> model_loaded, fault |-> env[1],
                  model_runs |-> result.model_runs, lookups |-> result.lookups,
                  response |-> result.response]>>
    /\ log' = IF result.response.status_code = 200 \/ result.fs.files # fs.files
              THEN Append(log, [id |-> calls + 1, endpoint |-> endpoint, at |-> now,
                                status_code |-> result.response.status_code,
                                audio_url |-> IF result.response.status_code = 200
                                              THEN result.response.body[1].audio_url
                                              ELSE None])
              ELSE log
    /\ UNCHANGED <<model_loaded, started, now, ntext, nprev, napplied>>

Synthesize ==
    /\ last = <<>>
    /\ calls < MaxCalls
    /\ \E request \in Requests, env \in Envs :
          Post("/synthesize", request, env,
               synthesize(request, model_loaded, fs, now, calls + 1, env))

GetInference ==
    /\ last = <<>>
    /\ calls < MaxCalls
    /\ \E request \in Requests, env \in Envs :
          Post("/Get_Inference", request, env,
               get_inference(request, model_loaded, fs, now, calls + 1, env))

GetAudio ==
    /\ last = <<>>
    /\ \E filename \in Filenames :
          last' = <<[method |-> "GET", filename |-> filename,
                     response |-> get_audio(filename, fs)]>>
    /\ UNCHANGED <<model_loaded, started, now, fs, calls, log, ntext, nprev, napplied>>

(* The client reads the response of its call before it makes the next one. *)
Receive ==
    /\ last # <<>>
    /\ last' = <<>>
    /\ UNCHANGED <<model_loaded, started, now, fs, calls, log, ntext, nprev, napplied>>

Next == startup_event \/ Tick \/ Synthesize \/ GetInference \/ GetAudio \/ Receive

Spec == Init /\ [][Next]_vars

(* Normalizer on its own: any bounded string, normalized up to twice. *)
InitNorm ==
    /\ model_loaded = FALSE
    /\ started = FALSE
    /\ now = 0
    /\ fs = EmptyDir
    /\ calls = 0
    /\ log = <<>>
    /\ last = <<>>
    /\ ntext \in Strings(MaxLen)
    /\ nprev = <<>>
    /\ napplied = 0

ApplyNormalize ==
    /\ napplied < 2
    /\ \E language \in Languages : ntext' = normalize(ntext, language)
    /\ nprev' = ntext
    /\ napplied' = napplied + 1
    /\ UNCHANGED <<model_loaded, started, now, fs, calls, log, last>>

NextNorm == ApplyNormalize

SpecNorm == InitNorm /\ [][NextNorm]_vars

(* ======================== properties of the API ======================== *)

SupportedCodes == {"hi", "bn", "mr", "kn", "te", "bh", "cc", "mg", "mt", "ta", "ml"}

IsPost == last # <<>> /\ last[1].method = "POST"

IsGet == last # <<>> /\ last[1].method = "GET"

InRange(request) == request.accent_id \in 0..4 /\ request.style_id \in 0..2

Valid(request) == request.language \in SupportedCodes /\ InRange(request)

Second(t) == t \div TicksPerSecond

Prefix(endpoint) == IF endpoint = "/synthesize" THEN "tts_" ELSE "inference_"

(* The file a call to endpoint at time t writes, and the URL it returns. *)
NameOf(e) == <<Prefix(e.endpoint), Second(e.at), ".wav">>

Route(audio_url) == Tail(audio_url)

Wrote(i) == Audio(log[i].id, 38400)

Successes == {i \in 1..Len(log) : log[i].status_code = 200}

(* The last call in the log that wrote the file named f. *)
LastWriter(f) ==
    CHOOSE i \in 1..Len(log) :
        /\ NameOf(log[i]) = f
        /\ \A j \in 1..Len(log) : NameOf(log[j]) = f => j <= i

(* C1: with the model loaded, a POST whose language code is not one of the *)
(* 11 supported codes is answered with status 400, whatever the text,      *)
(* accent_id, style_id and speaker_id.                                     *)
C1_UnsupportedLanguage400 ==
    (IsPost /\ last[1].loaded /\ last[1].request.language \notin SupportedCodes)
        => last[1].response.status_code = 400

(* C2: with the model loaded and a supported language, a POST with         *)
(* accent_id outside 0..4 or style_id outside 0..2 is answered with 400.   *)
C2_OutOfRange400 ==
    (IsPost /\ last[1].loaded /\ last[1].request.language \in SupportedCodes
            /\ ~InRange(last[1].request))
        => last[1].response.status_code = 400

SuccessBody(request, body) ==
    /\ body.status = "success"
    /\ body.language = request.language
    /\ body.accent_id = request.accent_id
    /\ body.style_id = request.style_id
    /\ body.duration = <<150 * 256, 22050>>

C4_NormalizeIdempotent == napplied = 2 => ntext = nprev

(* C5: while the model is not loaded every POST is answered with 503,      *)
(* whether or not its language, accent_id and style_id are valid.          *)
C5_NotLoaded503 ==
    (IsPost /\ ~last[1].loaded)
        => /\ last[1].response.status_code = 503
           /\ last[1].response.detail = <<"Model not loaded">>

C5_Witness ==
    /\ IsPost /\ ~last[1].loaded /\ started
    /\ last[1].request.language \notin SupportedCodes
    /\ last[1].request.accent_id = 5
    /\ last[1].response.status_code = 503

C9_FailureIs500 ==
    (IsPost /\ last[1].loaded /\ Valid(last[1].request) /\ last[1].fault # "ok")
        => /\ last[1].response.status_code = 500
           /\ last[1].response.detail = Fault(last[1].fault).detail
           /\ last[1].response.body = <<>>
           /\ last[1].model_runs = 1

C9_Witness ==
    /\ IsPost /\ last[1].loaded /\ Valid(last[1].request)
    /\ last[1].fault = "write_raises"
    /\ last[1].response.status_code = 500
    /\ last[1].response.detail = <<"No space left on device">>

Rejected(exchange) == ~exchange.loaded \/ ~Valid(exchange.request)

(* C10: a POST that is rejected (model not loaded, unsupported language,   *)
(* accent_id or style_id out of range) leaves the output directory and the *)
(* model-loaded flag as they were.                                         *)
C10_RejectedChangesNothing ==
    [][(calls' = calls + 1 /\ Rejected(last'[1]))
          => (fs' = fs /\ model_loaded' = model_loaded)]_vars

C10_Witness ==
    /\ IsPost /\ Rejected(last[1]) /\ last[1].loaded
    /\ fs.dir /\ <<Prefix(last[1].endpoint), Second(last[1].at), ".wav">> \in DOMAIN fs.files

(* C11: every request that passes validation reaches the model, and with  *)
(* indices inside the embedding tables: the language index is the position *)
(* of the code in the language table and lies in 0..10, accent_id lies in  *)
(* 0..4 and style_id in 0..2, so no lookup is out of range.                *)
C11_IndicesInTables ==
    IsPost =>
        /\ (last[1].loaded /\ Valid(last[1].request)) => last[1].lookups # <<>>
        /\ last[1].lookups # <<>> =>
              /\ last[1].lookups[1].language_id \in 0..10
              /\ LANGUAGES[last[1].lookups[1].language_id + 1] = last[1].request.language
              /\ last[1].lookups[1].accent_id = last[1].request.accent_id
              /\ last[1].lookups[1].accent_id \in 0..4
              /\ last[1].lookups[1].style_id = last[1].request.style_id
              /\ last[1].lookups[1].style_id \in 0..2
              /\ last[1].response.detail # <<"index out of range in self">>

C11_Witness ==
    /\ IsPost /\ last[1].lookups # <<>>
    /\ last[1].request.language = "ml" /\ last[1].lookups[1].language_id = 10
    /\ last[1].lookups[1].accent_id = 4 /\ last[1].lookups[1].style_id = 2
    /\ last[1].response.status_code = 200

====
